---- MODULE Spec2Model ----
(***************************************************************************)
(* A model of the kimiai client engine: KimiAIEngine (engine.py) and       *)
(* KimiChat.send_message_stream (chat.py).                                 *)
(*                                                                         *)
(* Text is modelled as a sequence of tokens.  A token is a record          *)
(* [ty, k, v]: a single character ("ch"), or a JSON  "key":"value"  member *)
(* of an object ("pair"), which the code never looks inside of before      *)
(* json.loads has run.                                                     *)
(***************************************************************************)
EXTENDS Integers, Sequences, FiniteSets, TLC

\* ------------------------------------------------------------------ bounds
MaxOps == 3        \* operations started on the engine in one behaviour
MaxLines == 3      \* lines of one streamed response body
MaxNameLen == 3    \* atoms of the base name of an uploaded file

\* ---------------------------------------------------------------- constants
DataPrefixLen == 5 \* len('data:'), the slice line[5:]

\* ------------------------------------------------------------------- tokens
Ch(c) == [ty |-> "ch", k |-> c, v |-> ""]
Pair(key, val) == [ty |-> "pair", k |-> key, v |-> val]

SP == Ch(" ")
LBRACE == Ch("{")
RBRACE == Ch("}")
COMMA == Ch(",")
BADBYTE == Ch("\\xff")      \* a byte that is not valid UTF-8
NUM5 == Ch("5")             \* the JSON number 5
JNULL == Ch("null")         \* the JSON literal null
JARR == Ch("[]")            \* the JSON array []
JUNK == Ch("x")             \* a character that starts no JSON value

DATA_PREFIX == <<Ch("d"), Ch("a"), Ch("t"), Ch("a"), Ch(":")>>

\* the value Python's None, and the defaults of the dict.get calls
NONE == "None"
EMPTY_STR == ""
EMPTY_MAP == "{}"

\* ------------------------------------------------------- str methods, bytes
RECURSIVE lstrip(_)
lstrip(s) == IF s # <<>> /\ Head(s) = SP THEN lstrip(Tail(s)) ELSE s

RECURSIVE rstrip(_)
rstrip(s) ==
    IF s # <<>> /\ s[Len(s)] = SP THEN rstrip(SubSeq(s, 1, Len(s) - 1)) ELSE s

strip(s) == rstrip(lstrip(s))

startswith(s, p) == Len(s) >= Len(p) /\ SubSeq(s, 1, Len(p)) = p

\* s[n:]
SliceFrom(s, n) == SubSeq(s, n + 1, Len(s))

\* q[-1]
Last(q) == q[Len(q)]

\* bytes.decode('utf-8'): raises UnicodeDecodeError on an invalid byte
utf8_ok(bytes) == \A i \in 1..Len(bytes) : bytes[i] # BADBYTE

\* 'needle' in text, for a needle that is one token
Contains(text, tok) == \E i \in 1..Len(text) : text[i] = tok

\* --------------------------------------------------------------- json.loads
\* A parsed value: [ok, ty, kv].  ok = FALSE is json.JSONDecodeError.  ty is
\* "dict" (kv = its members as <<key, value>> pairs, the last of two equal
\* keys winning), or "int", "null", "list" (not a dict: no .get).
JsonError == [ok |-> FALSE, ty |-> "error", kv |-> {}]
JsonDict(kv) == [ok |-> TRUE, ty |-> "dict", kv |-> kv]
JsonScalar(ty) == [ok |-> TRUE, ty |-> ty, kv |-> {}]

RECURSIVE NoWs(_)
NoWs(s) ==
    IF s = <<>> THEN <<>>
    ELSE IF Head(s) = SP THEN NoWs(Tail(s))
    ELSE <<Head(s)>> \o NoWs(Tail(s))

\* dict[key] = val
DictSet(kv, key, val) == {p \in kv : p[1] # key} \cup {<<key, val>>}

\* the members after "{": pair ("," pair)* "}" and nothing after it
RECURSIVE ParseMembers(_, _)
ParseMembers(s, kv) ==
    IF s = <<>> \/ Head(s).ty # "pair" THEN JsonError
    ELSE LET kv2 == DictSet(kv, Head(s).k, Head(s).v)
             rest == Tail(s)
         IN  IF rest = <<RBRACE>> THEN JsonDict(kv2)
             ELSE IF rest # <<>> /\ Head(rest) = COMMA
                  THEN ParseMembers(Tail(rest), kv2)
             ELSE JsonError

json_loads(text) ==
    LET s == NoWs(text)
    IN  IF s = <<LBRACE, RBRACE>> THEN JsonDict({})
        ELSE IF s # <<>> /\ Head(s) = LBRACE THEN ParseMembers(Tail(s), {})
        ELSE IF s = <<NUM5>> THEN JsonScalar("int")
        ELSE IF s = <<JNULL>> THEN JsonScalar("null")
        ELSE IF s = <<JARR>> THEN JsonScalar("list")
        ELSE JsonError

HasKey(d, key) == \E p \in d.kv : p[1] = key

\* dict.get(key, default)
\* (first a variant of DictGet: the default whatever the dict holds)
DictGetMutDefault(d, key, default) == default

DictGet(d, key, default) ==
    IF HasKey(d, key) THEN (CHOOSE p \in d.kv : p[1] = key)[2] ELSE default

\* ---------------------------------------------- the stream decoder, per line
\* models.py: CompletionChunk, SearchInfo, StatusUpdate as one record shape
NA == "n/a"
CompletionChunk(text) ==
    [event |-> "cmpl", text |-> text, hallucination |-> NA, search_type |-> NA]
SearchInfo(hallucination, search_type) ==
    [event |-> "search_info", text |-> NA, hallucination |-> hallucination,
     search_type |-> search_type]
StatusUpdate == [event |-> "status", text |-> NA, hallucination |-> NA, search_type |-> NA]

\* The dispatch on the parsed payload (chat.py 92-103).  data.get on a value
\* that is no dict raises AttributeError, which only the outer
\* "except Exception" catches.
\* (first a variant of Dispatch: get('text') without its default)
DispatchMutNoDefault(data) ==
    IF data.ty # "dict" THEN [exc |-> "KimiException", events |-> <<>>]
    ELSE LET event_type == DictGet(data, "event", NONE)
         IN  IF event_type = "cmpl"
             THEN [exc |-> "none",
                   events |-> <<CompletionChunk(DictGet(data, "text", NONE))>>]
             ELSE IF event_type = "search_info"
             THEN [exc |-> "none",
                   events |-> <<SearchInfo(DictGet(data, "hallucination", EMPTY_MAP),
                                           DictGet(data, "search_type", EMPTY_STR))>>]
             ELSE IF event_type = "status"
             THEN [exc |-> "none", events |-> <<StatusUpdate>>]
             ELSE [exc |-> "none", events |-> <<>>]

Dispatch(data) ==
    IF data.ty # "dict" THEN [exc |-> "KimiException", events |-> <<>>]
    ELSE LET event_type == DictGet(data, "event", NONE)
         IN  IF event_type = "cmpl"
             THEN [exc |-> "none",
                   events |-> <<CompletionChunk(DictGet(data, "text", EMPTY_STR))>>]
             ELSE IF event_type = "search_info"
             THEN [exc |-> "none",
                   events |-> <<SearchInfo(DictGet(data, "hallucination", EMPTY_MAP),
                                           DictGet(data, "search_type", EMPTY_STR))>>]
             ELSE IF event_type = "status"
             THEN [exc |-> "none", events |-> <<StatusUpdate>>]
             ELSE [exc |-> "none", events |-> <<>>]

\* One pass of the loop body (chat.py 82-108) over one line of bytes: the
\* events it yields (none or one) and the exception that ends the generator.
DecodeLine(line_bytes) ==
    IF ~utf8_ok(line_bytes) THEN [exc |-> "KimiException", events |-> <<>>]
    ELSE LET line == strip(line_bytes)
         IN  IF ~startswith(line, DATA_PREFIX) THEN [exc |-> "none", events |-> <<>>]
             ELSE LET data_str == strip(SliceFrom(line, DataPrefixLen))
                  IN  IF data_str = <<>> THEN [exc |-> "none", events |-> <<>>]
                      ELSE LET data == json_loads(data_str)
                           IN  IF ~data.ok THEN [exc |-> "none", events |-> <<>>]
                               ELSE Dispatch(data)

\* ------------------------------------------------------------------- state
VARIABLES
    cookie_file,      \* the file at cookies_path: [exists, parses, jar]
    session,          \* self.session: 0 is None, else an index of handles
    is_initialized,   \* self._is_initialized
    handles,          \* every AsyncSession ever created: [closed, ids, auth, cookies]
    chats,            \* every KimiChat ever returned: [chat_id, session]
    tasks,            \* the coroutines running operations: position and locals
    sent,             \* the header sets of the HTTP requests sent so far
    closed_once,      \* a close() has completed on the engine
    nops              \* operations started so far

vars == <<cookie_file, session, is_initialized, handles, chats, tasks, sent,
          closed_once, nops>>

Tasks == {"t1", "t2"}

\* ------------------------------------------------------------ the cookie file
AUTH_COOKIE == "kimi-auth"

CookieFile(exists, parses, jar) == [exists |-> exists, parses |-> parses, jar |-> jar]

CookieFiles ==
    { CookieFile(FALSE, FALSE, {}),                          \* no file
      CookieFile(TRUE, FALSE, {}),                           \* not Netscape format
      CookieFile(TRUE, TRUE, {}),                            \* no cookie at all
      CookieFile(TRUE, TRUE, {<<"other", "x">>}),            \* no kimi-auth
      CookieFile(TRUE, TRUE, {<<AUTH_COOKIE, "">>}),         \* empty kimi-auth
      CookieFile(TRUE, TRUE, {<<AUTH_COOKIE, "tokA">>, <<"other", "x">>}),
      CookieFile(TRUE, TRUE, {<<AUTH_COOKIE, "tokB">>}) }

\* cookies.get(name): the value, or None
CookieGet(jar, name) ==
    IF \E c \in jar : c[1] = name THEN (CHOOSE c \in jar : c[1] = name)[2] ELSE NONE

\* ----------------------------------------------------------- session handles
NO_AUTH == <<>>                       \* no Authorization header
Bearer(token) == <<"Bearer", " ", token>>   \* f"Bearer {auth_token}"

\* random.randint / random.choices: the identifiers of one initialization
RandomIds ==
    { [device_id |-> "d1", session_id |-> "s1", traffic_id |-> "x1"],
      [device_id |-> "d2", session_id |-> "s2", traffic_id |-> "x2"] }

NewSession(ids) == [closed |-> FALSE, ids |-> ids, auth |-> NO_AUTH, cookies |-> {}]

\* the header set a request through handle h carries
HeadersOf(h) == [ids |-> handles[h].ids, auth |-> handles[h].auth]

\* _load_cookies on the AsyncSession s: the session after it and the exception
\* raised.  The AuthenticationError raised inside the try is caught by its own
\* "except Exception" and raised again as AuthenticationError.
\* (first a variant of load_cookies: an empty kimi-auth value is accepted)
load_cookies_MutNoTokenCheck(s) ==
    IF ~cookie_file.exists THEN [s |-> s, exc |-> "AuthenticationError"]
    ELSE IF ~cookie_file.parses THEN [s |-> s, exc |-> "AuthenticationError"]
    ELSE LET s2 == [s EXCEPT !.cookies = @ \cup cookie_file.jar]
             auth_token == CookieGet(s2.cookies, AUTH_COOKIE)
         IN  IF auth_token = NONE
             THEN [s |-> s2, exc |-> "AuthenticationError"]
             ELSE [s |-> [s2 EXCEPT !.auth = Bearer(auth_token)], exc |-> "none"]

load_cookies(s) ==
    IF ~cookie_file.exists THEN [s |-> s, exc |-> "AuthenticationError"]
    ELSE IF ~cookie_file.parses THEN [s |-> s, exc |-> "AuthenticationError"]
    ELSE LET s2 == [s EXCEPT !.cookies = @ \cup cookie_file.jar]
             auth_token == CookieGet(s2.cookies, AUTH_COOKIE)
         IN  IF auth_token = NONE \/ auth_token = EMPTY_STR
             THEN [s |-> s2, exc |-> "AuthenticationError"]
             ELSE [s |-> [s2 EXCEPT !.auth = Bearer(auth_token)], exc |-> "none"]

\* _initialize_session with the random identifiers ids: the engine's fields
\* after it and the exception raised.  It has no await: it runs in one step.
\* self.session is assigned before _load_cookies runs and stays assigned when
\* _load_cookies raises.
initialize_session(ids) ==
    IF is_initialized
    THEN [session |-> session, is_initialized |-> is_initialized,
          handles |-> handles, exc |-> "none"]
    ELSE LET lc == load_cookies(NewSession(ids))
         IN  [session |-> Len(handles) + 1,
              is_initialized |-> (lc.exc = "none"),
              handles |-> Append(handles, lc.s),
              exc |-> lc.exc]

\* --------------------------------------------------------- the HTTP backend
\* What comes back from one request: a response (status, body text), a
\* RequestsError without a response (transport failure), or any other
\* exception out of the HTTP library.
Response(status, text) == [kind |-> "response", status |-> status, text |-> text]
NoResponse == [kind |-> "RequestsError", status |-> 0, text |-> <<>>]
Unexpected == [kind |-> "Exception", status |-> 0, text |-> <<>>]

Obj1(a) == <<LBRACE, a, RBRACE>>
Obj2(a, b) == <<LBRACE, a, COMMA, b, RBRACE>>
Obj3(a, b, c) == <<LBRACE, a, COMMA, b, COMMA, c, RBRACE>>

ErrorResponses ==
    { Response(401, <<Ch("denied")>>), Response(500, <<Ch("oops")>>) }

Failures == ErrorResponses \cup {NoResponse, Unexpected}

ChatBodies ==
    { Obj1(Pair("id", "abc123")), <<LBRACE, RBRACE>>, <<JUNK>>, <<JARR>> }

\* the same with a second chat, whose id is not the first member
MoreChatBodies ==
    ChatBodies \cup { Obj2(Pair("name", "New Chat"), Pair("id", "xyz789")) }

PresignBodies ==
    { Obj3(Pair("url", "U"), Pair("object_name", "O"), Pair("file_id", "F")),
      Obj1(Pair("object_name", "O")),
      Obj1(Pair("url", "U")),
      <<JUNK>> }

RegisterBodies ==
    { <<LBRACE, Pair("id", "f1"), COMMA, Pair("name", "n"), COMMA,
        Pair("object_name", "O"), COMMA, Pair("type", "ty"), RBRACE>>,
      Obj2(Pair("name", "n"), Pair("object_name", "O")),
      Obj1(Pair("id", "f1")),
      <<JUNK>> }

PARSED_MARKER == Pair("status", "parsed")     \* the text "status":"parsed"

ParseBodies == { Obj1(PARSED_MARKER), Obj1(Pair("status", "parsing")), <<JUNK>> }

BodiesOf(kind) ==
    CASE kind = "chat" -> ChatBodies
      [] kind = "presign" -> PresignBodies
      [] kind = "put" -> {<<>>}
      [] kind = "register" -> RegisterBodies
      [] kind = "parse" -> ParseBodies
      [] kind = "stream" -> {<<>>}

ResponsesTo(kind) == Failures \cup {Response(200, b) : b \in BodiesOf(kind)}

\* Response.raise_for_status raises on a status that is not 2xx
\* (first a variant of Is2xx: no status makes it raise)
Is2xxMutAnyStatus(status) == status \in 0..599

Is2xx(status) == status \in 200..299

\* ------------------------------------------------------------------- files
\* A local file: whether os.path.exists holds and its base name, a sequence
\* of atoms with "." for the dot.
Lower(atom) ==
    CASE atom = "JPG" -> "jpg"
      [] atom = "Png" -> "png"
      [] atom = "PDF" -> "pdf"
      [] OTHER -> atom

RECURSIVE LastSegment(_)
\* name.split('.')[-1]
LastSegment(name) ==
    IF \E i \in 1..Len(name) : name[i] = "."
    THEN LastSegment(Tail(name))
    ELSE name

LowerSeq(seg) == [i \in 1..Len(seg) |-> Lower(seg[i])]

IMAGE_EXTS == { <<"png">>, <<"jpg">>, <<"jpeg">>, <<"webp">>, <<"gif">> }

\* engine.py 195-196
FileType(name) ==
    IF LowerSeq(LastSegment(name)) \in IMAGE_EXTS THEN "image" ELSE "file"

LocalFile(exists, name) == [exists |-> exists, name |-> name]

NoFile == LocalFile(FALSE, <<>>)

\* os.path.exists(file_path)
path_exists_MutAlways(f) == TRUE

path_exists(f) == f.exists

Files ==
    { LocalFile(FALSE, <<"gone", ".", "pdf">>),
      LocalFile(TRUE, <<"photo", ".", "JPG">>),
      LocalFile(TRUE, <<"report", ".", "pdf">>) }

\* ------------------------------------------------------------------- tasks
\* APIError.status_code and APIError.response_text
NoErr == [status_code |-> -1, response_text |-> <<>>]
APIErr(status_code, response_text) ==
    [status_code |-> status_code, response_text |-> response_text]
NO_RESPONSE_TEXT == <<Ch("No response")>>

NoUploaded == [id |-> NONE, name |-> NONE, object_name |-> NONE,
               file_type |-> NONE, meta |-> NONE]

\* A coroutine that has not started: op is the operation, pc the await (or
\* yield) it is suspended at, reqs the HTTP requests it has sent, result what
\* it surfaced to its caller ("returned" or the exception's class), cause the
\* class of the exception it was raised from, err the APIError's fields,
\* parse_log the level of the line upload_file logged about the parsing,
\* file the file at upload_file's file_path.
NewTask(op) ==
    [op |-> op, pc |-> "idle", reqs |-> <<>>, result |-> "none", cause |-> "none",
     err |-> NoErr, after_close |-> closed_once, file_type |-> "",
     pre |-> JsonError, fdata |-> JsonError, h |-> 0, chat |-> 0,
     body |-> <<>>, pos |-> 0, yielded |-> <<>>,
     ret_chat |-> 0, ret_file |-> NoUploaded, parse_log |-> "none",
     file |-> NoFile]

\* The method, URL and JSON payload of the request of each call site, built
\* from the locals of the coroutine tr that makes it.
BASE_URL == "https://www.kimi.com/api"
NO_JSON == [none |-> TRUE]

RequestOf(kind, tr) ==
    CASE kind = "chat" ->
            [method |-> "POST", url |-> <<BASE_URL, "/chat">>,
             json |-> [name |-> "New Chat", born_from |-> "home", kimiplus_id |-> "kimi",
                       is_example |-> FALSE, source |-> "web", tags |-> <<>>]]
      [] kind = "presign" ->
            [method |-> "POST", url |-> <<BASE_URL, "/pre-sign-url">>,
             json |-> [name |-> tr.file.name, action |-> tr.file_type]]
      [] kind = "put" ->
            [method |-> "PUT", url |-> <<DictGet(tr.pre, "url", NONE)>>,
             json |-> NO_JSON]
      [] kind = "register" ->
            [method |-> "POST", url |-> <<BASE_URL, "/file">>,
             json |-> [name |-> tr.file.name,
                       object_name |-> DictGet(tr.pre, "object_name", NONE),
                       type |-> tr.file_type,
                       file_id |-> DictGet(tr.pre, "file_id", EMPTY_STR)]]
      [] kind = "parse" ->
            [method |-> "POST", url |-> <<BASE_URL, "/file/parse_process">>,
             json |-> [ids |-> <<DictGet(tr.fdata, "id", NONE)>>]]
      [] kind = "stream" ->
            [method |-> "POST",
             url |-> <<BASE_URL, "/chat/", chats[tr.chat].chat_id, "/completion/stream">>,
             json |-> [messages |-> <<"prompt">>, history |-> <<>>,
                       kimiplus_id |-> "kimi", model |-> "k2", use_search |-> TRUE,
                       refs |-> <<>>, use_deep_research |-> FALSE,
                       use_semantic_memory |-> FALSE]]

\* one HTTP request sent through handle h with the headers of h, and what
\* came back
Req(kind, h, headers, tr) ==
    [kind |-> kind, h |-> h, headers |-> headers,
     method |-> RequestOf(kind, tr).method, url |-> RequestOf(kind, tr).url,
     json |-> RequestOf(kind, tr).json,
     answered |-> FALSE, resp |-> NoResponse]

\* the frame's locals die with it
Raised(tr, exc, cause, err) ==
    [tr EXCEPT !.pc = "done", !.result = exc, !.cause = cause, !.err = err,
               !.pre = JsonError, !.fdata = JsonError, !.h = 0]

Returned(tr) ==
    [tr EXCEPT !.pc = "done", !.result = "returned",
               !.pre = JsonError, !.fdata = JsonError, !.h = 0]

Sent(tr, kind, h, pc) ==
    [tr EXCEPT !.pc = pc, !.reqs = Append(@, Req(kind, h, HeadersOf(h), tr))]

Answered(tr, resp) ==
    [tr EXCEPT !.reqs[Len(tr.reqs)].answered = TRUE,
               !.reqs[Len(tr.reqs)].resp = resp]

Busy(t) == tasks[t].pc \notin {"idle", "done"}

\* A new operation starts on a free coroutine; "t2" is used only while "t1" is
\* busy (which coroutine runs a sequential call makes no difference), and
\* runs the short operations: the long one of two concurrent operations is
\* on "t1".
CanStart(t) ==
    /\ nops < MaxOps
    /\ ~Busy(t)
    /\ t = "t1" \/ Busy("t1")

CanStartLong(t) == CanStart(t) /\ t = "t1"

Init ==
    /\ cookie_file \in CookieFiles
    /\ session = 0
    /\ is_initialized = FALSE
    /\ handles = <<>>
    /\ chats = <<>>
    /\ closed_once = FALSE
    /\ tasks = [t \in Tasks |-> NewTask("idle")]
    /\ sent = {}
    /\ nops = 0

\* ---------------------------------------------------------- _make_request
\* What the except clauses of _make_request (engine.py 138-145) make of what
\* came back: the exception raised ("none": the response is returned).
\* (first a variant of APIErrorOf: the response's status and body are dropped)
APIErrorOfMutNoBody(resp) ==
    IF resp.kind = "RequestsError"
    THEN [exc |-> "APIError", err |-> APIErr(0, NO_RESPONSE_TEXT)]
    ELSE IF resp.kind = "Exception"
    THEN [exc |-> "KimiException", err |-> NoErr]
    ELSE IF ~Is2xx(resp.status)
    THEN [exc |-> "APIError", err |-> APIErr(0, NO_RESPONSE_TEXT)]
    ELSE [exc |-> "none", err |-> NoErr]

APIErrorOf(resp) ==
    IF resp.kind = "RequestsError"
    THEN [exc |-> "APIError", err |-> APIErr(0, NO_RESPONSE_TEXT)]
    ELSE IF resp.kind = "Exception"
    THEN [exc |-> "KimiException", err |-> NoErr]
    ELSE IF ~Is2xx(resp.status)
    THEN [exc |-> "APIError", err |-> APIErr(resp.status, resp.text)]
    ELSE [exc |-> "none", err |-> NoErr]

\* the exception an APIError or KimiException is raised from
CauseOf(resp) == IF resp.kind = "Exception" THEN "Exception" ELSE "RequestsError"

\* upload_file's "except Exception" turns every exception into FileUploadError
Surface(exc, in_upload) == IF in_upload THEN "FileUploadError" ELSE exc

\* _make_request up to its await (engine.py 131-135), called by the
\* coroutine whose record is tr: lazy initialization when self.session is
\* None, then the request through self.session.  A closed AsyncSession
\* refuses the request with a RequestsError that has no response.
MakeRequest(t, tr, kind, pc, in_upload) ==
    \E ids \in RandomIds :
        LET e == IF session = 0
                 THEN initialize_session(ids)
                 ELSE [session |-> session, is_initialized |-> is_initialized,
                       handles |-> handles, exc |-> "none"]
        IN  /\ session' = e.session
            /\ is_initialized' = e.is_initialized
            /\ handles' = e.handles
            /\ IF e.exc # "none"
               THEN /\ tasks' = [tasks EXCEPT ![t] =
                            Raised(tr, Surface(e.exc, in_upload), e.exc, NoErr)]
                    /\ sent' = sent
               ELSE IF e.handles[e.session].closed
               THEN /\ tasks' = [tasks EXCEPT ![t] =
                            Raised(tr, Surface("APIError", in_upload), "APIError",
                                   APIErr(0, NO_RESPONSE_TEXT))]
                    /\ sent' = sent
               ELSE /\ tasks' = [tasks EXCEPT ![t] =
                            [tr EXCEPT !.pc = pc,
                                       !.reqs = Append(@,
                                           Req(kind, e.session,
                                               [ids |-> e.handles[e.session].ids,
                                                auth |-> e.handles[e.session].auth],
                                               tr))]]
                    /\ sent' = sent \cup {[ids |-> e.handles[e.session].ids,
                                           auth |-> e.handles[e.session].auth]}

\* a request through self.session made directly (session.put, session.post):
\* AttributeError when self.session is None
DirectRequest(t, tr, kind, pc) ==
    /\ UNCHANGED <<session, is_initialized, handles>>
    /\ IF session = 0
       THEN /\ tasks' = [tasks EXCEPT ![t] =
                    Raised(tr, "FileUploadError", "AttributeError", NoErr)]
            /\ sent' = sent
       ELSE IF handles[session].closed
       THEN /\ tasks' = [tasks EXCEPT ![t] =
                    Raised(tr, "FileUploadError", "RequestsError", NoErr)]
            /\ sent' = sent
       ELSE /\ tasks' = [tasks EXCEPT ![t] = Sent(tr, kind, session, pc)]
            /\ sent' = sent \cup {HeadersOf(session)}

\* ------------------------------------------------------------- create_chat
\* create_chat up to the await inside _make_request (engine.py 157-166)
CreateChatCall(t) ==
    /\ CanStart(t)
    /\ nops' = nops + 1
    /\ MakeRequest(t, NewTask("create_chat"), "chat", "chat_await", FALSE)
    /\ UNCHANGED <<cookie_file, chats, closed_once>>

\* the rest of create_chat (engine.py 136-145, 167-169).  response.json() and
\* .get('id') run outside every try; KimiChat is given self.session as it is
\* now.
\* (first a variant of CreateChatResume: a failed request is sent again)
CreateChatResumeMutRetry(t, bodies) ==
    /\ tasks[t].pc = "chat_await"
    /\ Len(tasks[t].reqs) < 2
    /\ tasks' = [tasks EXCEPT ![t] =
           Sent(Answered(tasks[t], NoResponse), "chat", Last(tasks[t].reqs).h,
                "chat_await")]
    /\ UNCHANGED <<cookie_file, session, is_initialized, handles, chats, sent,
                   closed_once, nops>>

CreateChatResume(t, bodies) ==
    /\ tasks[t].pc = "chat_await"
    /\ \E resp \in Failures \cup {Response(200, b) : b \in bodies} :
          LET tr == Answered(tasks[t], resp)
              e == APIErrorOf(resp)
              data == json_loads(resp.text)
          IN  IF e.exc # "none"
              THEN /\ tasks' = [tasks EXCEPT ![t] = Raised(tr, e.exc, CauseOf(resp), e.err)]
                   /\ chats' = chats
              ELSE IF ~data.ok
              THEN /\ tasks' = [tasks EXCEPT ![t] =
                           Raised(tr, "JSONDecodeError", "none", NoErr)]
                   /\ chats' = chats
              ELSE IF data.ty # "dict"
              THEN /\ tasks' = [tasks EXCEPT ![t] =
                           Raised(tr, "AttributeError", "none", NoErr)]
                   /\ chats' = chats
              ELSE /\ chats' = Append(chats, [chat_id |-> DictGet(data, "id", NONE),
                                              session |-> session])
                   /\ tasks' = [tasks EXCEPT ![t] =
                           [Returned(tr) EXCEPT !.ret_chat = Len(chats) + 1]]
    /\ UNCHANGED <<cookie_file, session, is_initialized, handles, sent,
                   closed_once, nops>>

\* ------------------------------------------------------------------- close
\* close up to "await self.session.close()" (engine.py 254-255); with no
\* session it does nothing
CloseCall(t) ==
    /\ CanStart(t)
    /\ nops' = nops + 1
    /\ tasks' = [tasks EXCEPT ![t] =
           IF session # 0
           THEN [NewTask("close") EXCEPT !.pc = "close_await", !.h = session]
           ELSE Returned(NewTask("close"))]
    /\ UNCHANGED <<cookie_file, session, is_initialized, handles, chats, sent,
                   closed_once>>

\* the AsyncSession it awaited is closed; engine.py 256-257
CloseResume(t) ==
    /\ tasks[t].pc = "close_await"
    /\ handles' = [handles EXCEPT ![tasks[t].h].closed = TRUE]
    /\ session' = 0
    /\ is_initialized' = FALSE
    /\ closed_once' = TRUE
    /\ tasks' = [tasks EXCEPT ![t] = Returned(tasks[t])]
    /\ UNCHANGED <<cookie_file, chats, sent, nops>>

\* --------------------------------------------------------------- __aenter__
AEnter(t) ==
    /\ CanStart(t)
    /\ nops' = nops + 1
    /\ \E ids \in RandomIds :
          LET e == initialize_session(ids)
          IN  /\ session' = e.session
              /\ is_initialized' = e.is_initialized
              /\ handles' = e.handles
              /\ tasks' = [tasks EXCEPT ![t] =
                     IF e.exc # "none"
                     THEN Raised(NewTask("aenter"), e.exc, "none", NoErr)
                     ELSE Returned(NewTask("aenter"))]
    /\ UNCHANGED <<cookie_file, chats, sent, closed_once>>

\* -------------------------------------------------------------- upload_file
\* upload_file up to the await of the pre-sign request (engine.py 191-204)
UploadFileCall(t, files) ==
    /\ CanStartLong(t)
    /\ nops' = nops + 1
    /\ \E f \in files :
          IF ~path_exists(f)
          THEN /\ tasks' = [tasks EXCEPT ![t] =
                       Raised([NewTask("upload_file") EXCEPT !.file = f],
                              "FileNotFoundError", "none", NoErr)]
               /\ UNCHANGED <<session, is_initialized, handles, sent>>
          ELSE MakeRequest(t, [NewTask("upload_file") EXCEPT
                                   !.file = f, !.file_type = FileType(f.name)],
                           "presign", "presign_await", TRUE)
    /\ UNCHANGED <<cookie_file, chats, closed_once>>

\* session.put / session.post followed by raise_for_status (engine.py
\* 209-210, 228-231): the exception raised, "none" on a 2xx response
\* (first a variant of DirectFailure: raise_for_status is not called)
DirectFailureMutNoStatusCheck(resp) ==
    IF resp.kind # "response" THEN resp.kind ELSE "none"

DirectFailure(resp) ==
    IF resp.kind # "response" THEN resp.kind
    ELSE IF ~Is2xx(resp.status) THEN "RequestsError"
    ELSE "none"

\* from the pre-sign response to the await of the PUT (engine.py 204-209)
UploadPresignResume(t) ==
    /\ tasks[t].pc = "presign_await"
    /\ \E resp \in ResponsesTo("presign") :
          LET tr == Answered(tasks[t], resp)
              e == APIErrorOf(resp)
              pre_sign_data == json_loads(resp.text)
          IN  IF e.exc # "none"
              THEN /\ tasks' = [tasks EXCEPT ![t] =
                           Raised(tr, "FileUploadError", e.exc, e.err)]
                   /\ UNCHANGED <<session, is_initialized, handles, sent>>
              ELSE IF ~pre_sign_data.ok
              THEN /\ tasks' = [tasks EXCEPT ![t] =
                           Raised(tr, "FileUploadError", "JSONDecodeError", NoErr)]
                   /\ UNCHANGED <<session, is_initialized, handles, sent>>
              ELSE IF session # 0 /\ ~HasKey(pre_sign_data, "url")
              THEN /\ tasks' = [tasks EXCEPT ![t] =
                           Raised(tr, "FileUploadError", "KeyError", NoErr)]
                   /\ UNCHANGED <<session, is_initialized, handles, sent>>
              ELSE DirectRequest(t, [tr EXCEPT !.pre = pre_sign_data], "put", "put_await")
    /\ UNCHANGED <<cookie_file, chats, closed_once, nops>>

\* from the PUT's response to the await of the registration (engine.py 210-222)
UploadPutResume(t) ==
    /\ tasks[t].pc = "put_await"
    /\ \E resp \in ResponsesTo("put") :
          LET tr == Answered(tasks[t], resp)
              failure == DirectFailure(resp)
          IN  IF failure # "none"
              THEN /\ tasks' = [tasks EXCEPT ![t] =
                           Raised(tr, "FileUploadError", failure, NoErr)]
                   /\ UNCHANGED <<session, is_initialized, handles, sent>>
              ELSE IF ~HasKey(tr.pre, "object_name")
              THEN /\ tasks' = [tasks EXCEPT ![t] =
                           Raised(tr, "FileUploadError", "KeyError", NoErr)]
                   /\ UNCHANGED <<session, is_initialized, handles, sent>>
              ELSE MakeRequest(t, tr, "register", "register_await", TRUE)
    /\ UNCHANGED <<cookie_file, chats, closed_once, nops>>

\* UploadedFile(...) from the registration's response (engine.py 238-246):
\* KeyError when 'name', 'object_name' or 'type' is missing
BuildUploaded(t, tr, file_data) ==
    /\ tasks' = [tasks EXCEPT ![t] =
           IF \A key \in {"id", "name", "object_name", "type"} : HasKey(file_data, key)
           THEN [Returned(tr) EXCEPT !.ret_file =
                    [id |-> DictGet(file_data, "id", NONE),
                     name |-> DictGet(file_data, "name", NONE),
                     object_name |-> DictGet(file_data, "object_name", NONE),
                     file_type |-> DictGet(file_data, "type", NONE),
                     meta |-> DictGet(file_data, "meta", EMPTY_MAP)]]
           ELSE Raised(tr, "FileUploadError", "KeyError", NoErr)]
    /\ UNCHANGED <<session, is_initialized, handles, sent>>

\* from the registration's response to the await of the parse trigger, or to
\* the return for an image (engine.py 222-229, 238-246)
UploadRegisterResume(t) ==
    /\ tasks[t].pc = "register_await"
    /\ \E resp \in ResponsesTo("register") :
          LET tr == Answered(tasks[t], resp)
              e == APIErrorOf(resp)
              file_data == json_loads(resp.text)
          IN  IF e.exc # "none"
              THEN /\ tasks' = [tasks EXCEPT ![t] =
                           Raised(tr, "FileUploadError", e.exc, e.err)]
                   /\ UNCHANGED <<session, is_initialized, handles, sent>>
              ELSE IF ~file_data.ok
              THEN /\ tasks' = [tasks EXCEPT ![t] =
                           Raised(tr, "FileUploadError", "JSONDecodeError", NoErr)]
                   /\ UNCHANGED <<session, is_initialized, handles, sent>>
              ELSE IF ~HasKey(file_data, "id")
              THEN /\ tasks' = [tasks EXCEPT ![t] =
                           Raised(tr, "FileUploadError", "KeyError", NoErr)]
                   /\ UNCHANGED <<session, is_initialized, handles, sent>>
              ELSE IF tr.file_type = "file"
              THEN DirectRequest(t, [tr EXCEPT !.fdata = file_data], "parse", "parse_await")
              ELSE BuildUploaded(t, tr, file_data)
    /\ UNCHANGED <<cookie_file, chats, closed_once, nops>>

\* The look at the parse trigger's body (engine.py 233-236): the text is
\* searched for the marker, not parsed; either branch only logs a line.
\* (first a variant of ParseCheck: a body without the marker is an error)
ParseCheckMutMarkerRequired(text) ==
    IF Contains(text, PARSED_MARKER)
    THEN [log |-> "info", exc |-> "none"]
    ELSE [log |-> "warning", exc |-> "Exception"]

ParseCheck(text) ==
    IF Contains(text, PARSED_MARKER)
    THEN [log |-> "info", exc |-> "none"]
    ELSE [log |-> "warning", exc |-> "none"]

\* from the parse trigger's response to the return (engine.py 231-246)
UploadParseResume(t) ==
    /\ tasks[t].pc = "parse_await"
    /\ \E resp \in ResponsesTo("parse") :
          LET tr == Answered(tasks[t], resp)
              failure == DirectFailure(resp)
              check == ParseCheck(resp.text)
          IN  IF failure # "none"
              THEN /\ tasks' = [tasks EXCEPT ![t] =
                           Raised(tr, "FileUploadError", failure, NoErr)]
                   /\ UNCHANGED <<session, is_initialized, handles, sent>>
              ELSE IF check.exc # "none"
              THEN /\ tasks' = [tasks EXCEPT ![t] =
                           Raised([tr EXCEPT !.parse_log = check.log],
                                  "FileUploadError", check.exc, NoErr)]
                   /\ UNCHANGED <<session, is_initialized, handles, sent>>
              ELSE BuildUploaded(t, [tr EXCEPT !.parse_log = check.log], tr.fdata)
    /\ UNCHANGED <<cookie_file, chats, closed_once, nops>>

\* ------------------------------------------------------ send_message_stream
\* the lines of a streamed response body
LineOf(payload) == DATA_PREFIX \o <<SP>> \o payload

L_CMPL_A == LineOf(Obj2(Pair("event", "cmpl"), Pair("text", "A")))
L_CMPL_B == DATA_PREFIX \o Obj2(Pair("text", "B"), Pair("event", "cmpl"))
L_CMPL_NOTEXT == LineOf(Obj1(Pair("event", "cmpl")))
L_SEARCH == LineOf(Obj3(Pair("event", "search_info"), Pair("hallucination", "H"),
                        Pair("search_type", "S")))
L_SEARCH_BARE == <<SP>> \o LineOf(Obj1(Pair("event", "search_info"))) \o <<SP>>
L_STATUS == LineOf(Obj1(Pair("event", "status")))
L_UNKNOWN == LineOf(Obj2(Pair("event", "ping"), Pair("text", "A")))
L_NOEVENT == LineOf(Obj1(Pair("text", "A")))
L_KEEPALIVE == DATA_PREFIX \o <<SP>>
L_BLANK == <<>>
L_COMMENT == <<Ch(":"), SP, JUNK>>
L_MALFORMED == LineOf(<<LBRACE, Pair("event", "cmpl")>>)
L_NUMBER == LineOf(<<NUM5>>)
L_NULL == LineOf(<<JNULL>>)
L_BADBYTES == <<BADBYTE>>

Lines ==
    { L_CMPL_A, L_CMPL_B, L_CMPL_NOTEXT, L_SEARCH, L_SEARCH_BARE, L_STATUS,
      L_UNKNOWN, L_NOEVENT, L_KEEPALIVE, L_BLANK, L_COMMENT, L_MALFORMED,
      L_NUMBER, L_NULL, L_BADBYTES }

RECURSIVE SeqsUpTo(_, _)
SeqsUpTo(S, n) ==
    IF n = 0 THEN {<<>>}
    ELSE LET shorter == SeqsUpTo(S, n - 1)
         IN  shorter \cup {Append(q, x) : q \in shorter, x \in S}

\* every response body of at most MaxLines lines
AllBodies == SeqsUpTo(Lines, MaxLines)

\* the bodies streamed while other operations run on the engine
FewBodies == { <<L_CMPL_A, L_STATUS>>, <<L_NUMBER>> }

\* send_message_stream(...) is called on chat c: an async generator is made
\* and none of its body runs (chat.py 38-44)
\* (first a variant of StreamCall: the POST is sent by the call itself)
StreamCallMutEager(t) ==
    /\ CanStartLong(t)
    /\ nops' = nops + 1
    /\ \E c \in 1..Len(chats) :
          LET tr == [NewTask("send_message_stream") EXCEPT !.pc = "gen", !.chat = c]
              h == chats[c].session
          IN  IF h = 0 \/ handles[h].closed
              THEN /\ tasks' = [tasks EXCEPT ![t] = tr]
                   /\ sent' = sent
              ELSE /\ tasks' = [tasks EXCEPT ![t] = Sent(tr, "stream", h, "stream_await")]
                   /\ sent' = sent \cup {HeadersOf(h)}
    /\ UNCHANGED <<cookie_file, session, is_initialized, handles, chats,
                   closed_once>>

StreamCall(t) ==
    /\ CanStartLong(t)
    /\ nops' = nops + 1
    /\ \E c \in 1..Len(chats) :
          tasks' = [tasks EXCEPT ![t] =
              [NewTask("send_message_stream") EXCEPT !.pc = "gen", !.chat = c]]
    /\ UNCHANGED <<cookie_file, session, is_initialized, handles, chats, sent,
                   closed_once>>

\* the first advance of the generator, up to the await of the POST through
\* the chat's own session (chat.py 61-78)
\* (first a variant of StreamPost: the POST goes through the engine's session)
StreamPostMutEngineSession(t) ==
    /\ tasks[t].pc = "gen"
    /\ LET h == session
       IN  IF h = 0
           THEN /\ tasks' = [tasks EXCEPT ![t] =
                        Raised(tasks[t], "KimiException", "AttributeError", NoErr)]
                /\ sent' = sent
           ELSE IF handles[h].closed
           THEN /\ tasks' = [tasks EXCEPT ![t] =
                        Raised(tasks[t], "APIError", "RequestsError",
                               APIErr(0, NO_RESPONSE_TEXT))]
                /\ sent' = sent
           ELSE /\ tasks' = [tasks EXCEPT ![t] = Sent(tasks[t], "stream", h, "stream_await")]
                /\ sent' = sent \cup {HeadersOf(h)}
    /\ UNCHANGED <<cookie_file, session, is_initialized, handles, chats,
                   closed_once, nops>>

StreamPost(t) ==
    /\ tasks[t].pc = "gen"
    /\ LET h == chats[tasks[t].chat].session
       IN  IF h = 0
           THEN /\ tasks' = [tasks EXCEPT ![t] =
                        Raised(tasks[t], "KimiException", "AttributeError", NoErr)]
                /\ sent' = sent
           ELSE IF handles[h].closed
           THEN /\ tasks' = [tasks EXCEPT ![t] =
                        Raised(tasks[t], "APIError", "RequestsError",
                               APIErr(0, NO_RESPONSE_TEXT))]
                /\ sent' = sent
           ELSE /\ tasks' = [tasks EXCEPT ![t] = Sent(tasks[t], "stream", h, "stream_await")]
                /\ sent' = sent \cup {HeadersOf(h)}
    /\ UNCHANGED <<cookie_file, session, is_initialized, handles, chats,
                   closed_once, nops>>

\* the POST's response: raise_for_status, then the loop over
\* response.aiter_lines() begins (chat.py 79-81, 109-115)
StreamPostResume(t, bodies) ==
    /\ tasks[t].pc = "stream_await"
    /\ \E resp \in ResponsesTo("stream"), body \in bodies :
          LET tr == Answered(tasks[t], resp)
              e == APIErrorOf(resp)
          IN  tasks' = [tasks EXCEPT ![t] =
                  IF e.exc # "none"
                  THEN Raised(tr, e.exc, CauseOf(resp), e.err)
                  ELSE [tr EXCEPT !.pc = "lines", !.body = body]]
    /\ UNCHANGED <<cookie_file, session, is_initialized, handles, chats, sent,
                   closed_once, nops>>

\* one pass of the loop body over the next line; an event it yields is taken
\* by the consumer, which advances the generator again (chat.py 81-108, 113-115)
\* (first a variant of StreamLine: a StatusUpdate ends the generator)
StreamLineMutStatusEnds(t) ==
    /\ tasks[t].pc = "lines"
    /\ tasks[t].pos < Len(tasks[t].body)
    /\ LET d == DecodeLine(tasks[t].body[tasks[t].pos + 1])
           tr == [tasks[t] EXCEPT !.pos = @ + 1, !.yielded = @ \o d.events]
       IN  tasks' = [tasks EXCEPT ![t] =
               IF d.exc # "none"
               THEN Raised(tr, d.exc, "Exception", NoErr)
               ELSE IF d.events = <<StatusUpdate>> THEN Returned(tr)
               ELSE tr]
    /\ UNCHANGED <<cookie_file, session, is_initialized, handles, chats, sent,
                   closed_once, nops>>

StreamLine(t) ==
    /\ tasks[t].pc = "lines"
    /\ tasks[t].pos < Len(tasks[t].body)
    /\ LET d == DecodeLine(tasks[t].body[tasks[t].pos + 1])
           tr == [tasks[t] EXCEPT !.pos = @ + 1, !.yielded = @ \o d.events]
       IN  tasks' = [tasks EXCEPT ![t] =
               IF d.exc # "none"
               THEN Raised(tr, d.exc, "Exception", NoErr)
               ELSE tr]
    /\ UNCHANGED <<cookie_file, session, is_initialized, handles, chats, sent,
                   closed_once, nops>>

\* the connection drops before the next line: aiter_lines raises a
\* RequestsError without a response (chat.py 109-112)
StreamDrop(t) ==
    /\ tasks[t].pc = "lines"
    /\ tasks[t].pos < Len(tasks[t].body)
    /\ tasks' = [tasks EXCEPT ![t] =
           Raised(tasks[t], "APIError", "RequestsError", APIErr(0, NO_RESPONSE_TEXT))]
    /\ UNCHANGED <<cookie_file, session, is_initialized, handles, chats, sent,
                   closed_once, nops>>

\* the response is exhausted: the loop and the generator end
StreamEnd(t) ==
    /\ tasks[t].pc = "lines"
    /\ tasks[t].pos = Len(tasks[t].body)
    /\ tasks' = [tasks EXCEPT ![t] = Returned(tasks[t])]
    /\ UNCHANGED <<cookie_file, session, is_initialized, handles, chats, sent,
                   closed_once, nops>>

\* ------------------------------------------------------------ specifications
\* Operations on one engine, started and interleaved in any way.
Next ==
    \E t \in Tasks :
        \/ AEnter(t)
        \/ CreateChatCall(t)
        \/ CreateChatResume(t, ChatBodies)
        \/ UploadFileCall(t, Files)
        \/ UploadPresignResume(t)
        \/ UploadPutResume(t)
        \/ UploadRegisterResume(t)
        \/ UploadParseResume(t)
        \/ CloseCall(t)
        \/ CloseResume(t)
        \/ StreamCall(t)
        \/ StreamPost(t)
        \/ StreamPostResume(t, FewBodies)
        \/ StreamLine(t)
        \/ StreamDrop(t)
        \/ StreamEnd(t)

Spec == Init /\ [][Next]_vars

\* One completion stream on a chat of an initialized engine, over every
\* response body of at most MaxLines lines.  The initial state is the one
\* after "async with engine" and create_chat answered {"id":"abc123"}; the
\* stream is the last operation of the behaviour.
InitStream ==
    /\ cookie_file = CookieFile(TRUE, TRUE, {<<AUTH_COOKIE, "tokB">>})
    /\ session = 1
    /\ is_initialized = TRUE
    /\ \E ids \in RandomIds : handles = <<load_cookies(NewSession(ids)).s>>
    /\ chats = <<[chat_id |-> "abc123", session |-> 1]>>
    /\ closed_once = FALSE
    /\ tasks = [t \in Tasks |-> NewTask("idle")]
    /\ sent = {[ids |-> handles[1].ids, auth |-> handles[1].auth]}
    /\ nops = MaxOps - 1

NextStream ==
    \/ StreamCall("t1")
    \/ StreamPost("t1")
    \/ StreamPostResume("t1", AllBodies)
    \/ StreamLine("t1")
    \/ StreamDrop("t1")
    \/ StreamEnd("t1")

SpecStream == InitStream /\ [][NextStream]_vars

\* The same stream with a consumer that keeps advancing the generator
\* ("async for") over a response whose next line either arrives or fails to:
\* weak fairness of the loop's steps.  The bodies are those over FairLines.
FairLines == {L_CMPL_A, L_STATUS, L_KEEPALIVE, L_MALFORMED, L_NUMBER}

FairBodies == SeqsUpTo(FairLines, MaxLines)

NextStreamFair ==
    \/ StreamCall("t1")
    \/ StreamPost("t1")
    \/ StreamPostResume("t1", FairBodies)
    \/ StreamLine("t1")
    \/ StreamDrop("t1")
    \/ StreamEnd("t1")

\* a step of the loop: the next line is decoded, or fails to arrive, or the
\* lines are exhausted
LoopStep(t) == StreamLine(t) \/ StreamDrop(t) \/ StreamEnd(t)

\* LoopStep(t) is enabled exactly when the generator is in its loop: each of
\* its three actions has the guard pc = "lines", pos never exceeds the length
\* of the body, and below it StreamLine moves pos while at it StreamEnd ends
\* the generator.
LoopEnabled(t) == tasks[t].pc = "lines"

\* weak fairness of LoopStep("t1"), written with its enabling condition
LoopFairness == []<>(~LoopEnabled("t1")) \/ []<><<LoopStep("t1")>>_vars

SpecStreamFair ==
    /\ InitStream
    /\ [][NextStreamFair]_vars
    /\ LoopFairness

\* The life of a chat: from the state after "async with engine" and a
\* create_chat answered {"id":"abc123"}, the engine is closed, entered again
\* and asked for more chats while the chats are streamed from.
InitChatLife ==
    /\ cookie_file = CookieFile(TRUE, TRUE, {<<AUTH_COOKIE, "tokB">>})
    /\ session = 1
    /\ is_initialized = TRUE
    /\ \E ids \in RandomIds : handles = <<load_cookies(NewSession(ids)).s>>
    /\ chats = <<[chat_id |-> "abc123", session |-> 1]>>
    /\ closed_once = FALSE
    /\ tasks = [t \in Tasks |-> NewTask("idle")]
    /\ sent = {[ids |-> handles[1].ids, auth |-> handles[1].auth]}
    /\ nops = 0

NextChatLife ==
    \E t \in Tasks :
        \/ AEnter(t)
        \/ CreateChatCall(t)
        \/ CreateChatResume(t, MoreChatBodies)
        \/ CloseCall(t)
        \/ CloseResume(t)
        \/ StreamCall(t)
        \/ StreamPost(t)
        \/ StreamPostResume(t, FewBodies)
        \/ StreamLine(t)
        \/ StreamDrop(t)
        \/ StreamEnd(t)

SpecChatLife == InitChatLife /\ [][NextChatLife]_vars

\* One upload_file call on an initialized engine, over every base name of at
\* most MaxNameLen atoms; the upload is the last operation of the behaviour.
NameAtoms == {".", "photo", "JPG", "Png", "gif", "pdf"}

AllFiles ==
    {LocalFile(TRUE, name) : name \in SeqsUpTo(NameAtoms, MaxNameLen)}
        \cup {LocalFile(FALSE, <<"gone", ".", "pdf">>)}

InitUpload ==
    /\ cookie_file = CookieFile(TRUE, TRUE, {<<AUTH_COOKIE, "tokB">>})
    /\ session = 1
    /\ is_initialized = TRUE
    /\ \E ids \in RandomIds : handles = <<load_cookies(NewSession(ids)).s>>
    /\ chats = <<>>
    /\ closed_once = FALSE
    /\ tasks = [t \in Tasks |-> NewTask("idle")]
    /\ sent = {}
    /\ nops = MaxOps - 1

NextUpload ==
    \/ UploadFileCall("t1", AllFiles)
    \/ UploadPresignResume("t1")
    \/ UploadPutResume("t1")
    \/ UploadRegisterResume("t1")
    \/ UploadParseResume("t1")

SpecUpload == InitUpload /\ [][NextUpload]_vars

\* ============================================================== properties

EngineOps == {"create_chat", "upload_file", "send_message_stream"}

\* the request was answered with an HTTP response of a 2xx status
Succeeded(req) ==
    req.answered /\ req.resp.kind = "response" /\ Is2xx(req.resp.status)

\* ---------------------------------------------------------------------- C1
\* the cookie file is missing, or holds no kimi-auth cookie
NoCredentialFile ==
    \/ ~cookie_file.exists
    \/ ~cookie_file.parses
    \/ ~\E c \in cookie_file.jar : c[1] = AUTH_COOKIE

\* C1: with a cookie file that is missing or holds no kimi-auth cookie, the
\* engine never becomes initialized and no HTTP request is ever sent,
\* whatever sequence of create_chat, upload_file and __aenter__ calls runs.
C1_NoRequestWithoutCredential ==
    NoCredentialFile =>
        /\ ~is_initialized
        /\ sent = {}
        /\ \A t \in Tasks : tasks[t].reqs = <<>>

\* ---------------------------------------------------------------------- C2
\* C2: an operation started after a close() has completed sends no HTTP
\* request and does not return a result: it ends with an error.
C2_ClosedFailsFast ==
    \A t \in Tasks :
        (tasks[t].after_close /\ tasks[t].op \in EngineOps) =>
            /\ tasks[t].reqs = <<>>
            /\ tasks[t].result # "returned"

\* ---------------------------------------------------------------------- C5
UploadOrder == <<"presign", "put", "register", "parse">>

\* C5: the requests of one upload_file call are a prefix of presign, PUT,
\* register, parse trigger; a request is sent only after every earlier one
\* got a 2xx response; a request that did not get one ends the call; and the
\* call ends with no other error than FileUploadError (or, before any
\* request, the not-found error of a missing file).
C5_UploadStepsInOrder ==
    \A t \in Tasks :
        tasks[t].op = "upload_file" =>
            LET r == tasks[t].reqs
            IN  /\ Len(r) <= Len(UploadOrder)
                /\ \A i \in 1..Len(r) : r[i].kind = UploadOrder[i]
                /\ \A i \in 1..(Len(r) - 1) : Succeeded(r[i])
                /\ (r # <<>> /\ Last(r).answered /\ ~Succeeded(Last(r))) =>
                       tasks[t].pc = "done" /\ tasks[t].result = "FileUploadError"
                /\ (tasks[t].pc = "done" /\ tasks[t].result # "returned") =>
                       \/ tasks[t].result = "FileUploadError"
                       \/ tasks[t].result = "FileNotFoundError" /\ r = <<>>

\* an upload whose PUT was answered 401: FileUploadError after two requests
C5_Witness ==
    \E t \in Tasks :
        /\ tasks[t].op = "upload_file"
        /\ tasks[t].result = "FileUploadError"
        /\ Len(tasks[t].reqs) = 2
        /\ tasks[t].reqs[2].kind = "put"
        /\ tasks[t].reqs[2].resp = Response(401, <<Ch("denied")>>)

\* ---------------------------------------------------------------------- C6
\* the operation's last request was answered with status 401
LastIs401(t) ==
    /\ tasks[t].reqs # <<>>
    /\ Last(tasks[t].reqs).answered
    /\ Last(tasks[t].reqs).resp.kind = "response"
    /\ Last(tasks[t].reqs).resp.status = 401

\* C6 as claimed: whichever HTTP call is answered 401, the calling operation
\* raises APIError with status_code 401 and the response body as
\* response_text.
C6_Every401IsAPIError ==
    \A t \in Tasks :
        LastIs401(t) =>
            /\ tasks[t].result = "APIError"
            /\ tasks[t].err = APIErr(401, Last(tasks[t].reqs).resp.text)

\* C6 amended: a 401 to chat creation or to the completion stream raises
\* APIError with status_code 401 and the body unchanged; a 401 to a call of
\* upload_file raises FileUploadError, raised from that APIError for the
\* presign and registration calls and from the HTTP library's error for the
\* PUT and the parse trigger.
C6_401ByOperation ==
    \A t \in Tasks :
        LastIs401(t) =>
            LET last == Last(tasks[t].reqs)
            IN  IF tasks[t].op = "upload_file"
                THEN /\ tasks[t].result = "FileUploadError"
                     /\ last.kind \in {"presign", "register"} =>
                            /\ tasks[t].cause = "APIError"
                            /\ tasks[t].err = APIErr(401, last.resp.text)
                     /\ last.kind \in {"put", "parse"} =>
                            tasks[t].cause = "RequestsError"
                ELSE /\ tasks[t].result = "APIError"
                     /\ tasks[t].err = APIErr(401, last.resp.text)

\* the completion stream's POST was answered 401 and APIError(401) came out
C6_Witness ==
    \E t \in Tasks :
        /\ tasks[t].op = "send_message_stream"
        /\ LastIs401(t)
        /\ tasks[t].result = "APIError"
        /\ tasks[t].err = APIErr(401, <<Ch("denied")>>)

\* ---------------------------------------------------------------------- C7
Taxonomy == {"AuthenticationError", "APIError", "FileUploadError", "KimiException"}

\* C7: whatever create_chat, upload_file or send_message_stream surfaces is
\* one of the four taxonomy kinds.  (The not-found error upload_file raises
\* for a missing source file, which its docstring announces, is not counted
\* against the claim here.)
C7_OnlyTaxonomyErrors ==
    \A t \in Tasks :
        tasks[t].op \in EngineOps =>
            tasks[t].result \in
                {"none", "returned", "FileNotFoundError"} \cup Taxonomy

\* ---------------------------------------------------------------------- C8
\* C8: every request the engine has sent carries the same header set (the
\* device, session and traffic identifiers and the Authorization credential).
C8_OneHeaderSet == Cardinality(sent) <= 1

\* ---------------------------------------------------------------------- C9
\* C9: whenever _is_initialized holds, the session exists and its
\* Authorization header is "Bearer " followed by the kimi-auth cookie of the
\* cookie file, which exists and is not empty.
C9_InitializedHasBearer ==
    is_initialized =>
        /\ session # 0
        /\ cookie_file.exists
        /\ \E c \in cookie_file.jar :
              /\ c[1] = AUTH_COOKIE
              /\ c[2] # EMPTY_STR
              /\ handles[session].auth = <<"Bearer", " ", c[2]>>

\* an engine initialized from the cookie file whose kimi-auth is tokB
C9_Witness ==
    /\ is_initialized
    /\ session # 0
    /\ handles[session].auth = <<"Bearer", " ", "tokB">>

\* ------------------------------------------------------------ C3, C4, C10
\* What section 4.4 of the specification says of one line of text: its kind,
\* and the events it stands for.
Payload(line) == json_loads(strip(SliceFrom(strip(line), Len(DATA_PREFIX))))

LineKind(line) ==
    IF ~startswith(strip(line), DATA_PREFIX) THEN "not_data"
    ELSE IF strip(SliceFrom(strip(line), Len(DATA_PREFIX))) = <<>> THEN "empty"
    ELSE IF Payload(line).ty # "dict" THEN "no_object"
    ELSE IF ~HasKey(Payload(line), "event") THEN "unknown"
    ELSE IF DictGet(Payload(line), "event", NONE) \in {"cmpl", "search_info", "status"}
    THEN DictGet(Payload(line), "event", NONE)
    ELSE "unknown"

Field(line, key, default) ==
    IF HasKey(Payload(line), key) THEN DictGet(Payload(line), key, default) ELSE default

EventsOfLine(line) ==
    CASE LineKind(line) = "cmpl" -> <<CompletionChunk(Field(line, "text", ""))>>
      [] LineKind(line) = "search_info" ->
            <<SearchInfo(Field(line, "hallucination", "{}"), Field(line, "search_type", ""))>>
      [] LineKind(line) = "status" -> <<StatusUpdate>>
      [] OTHER -> <<>>

RECURSIVE EventsOfLines(_)
EventsOfLines(body) ==
    IF body = <<>> THEN <<>>
    ELSE EventsOfLine(Head(body)) \o EventsOfLines(Tail(body))

\* every line of the body is text (valid UTF-8)
TextBody(body) == \A i \in 1..Len(body) : utf8_ok(body[i])

\* the stream's POST got a 2xx response, so its lines are being decoded
Streaming(t) ==
    /\ tasks[t].op = "send_message_stream"
    /\ tasks[t].reqs # <<>>
    /\ Succeeded(Last(tasks[t].reqs))

\* C3: when a stream whose lines all arrived is over, the events it yielded
\* are the events of the recognized data: lines of the response, one for
\* each, in the order of the lines.
C3_YieldsEveryRecognizedLine ==
    \A t \in Tasks :
        (/\ Streaming(t)
         /\ TextBody(tasks[t].body)
         /\ tasks[t].pc = "done"
         /\ tasks[t].result # "APIError") =>
            tasks[t].yielded = EventsOfLines(tasks[t].body)

\* C4: no line of text, whatever its payload, ends the stream with an error.
C4_NoLineEndsTheStream ==
    \A t \in Tasks :
        (Streaming(t) /\ TextBody(tasks[t].body)) => tasks[t].result # "KimiException"

FileRecordKeys == {"id", "name", "object_name", "type"}

\* the registration request got a 2xx response that carries a file record
Registered(req) ==
    /\ req.kind = "register"
    /\ Succeeded(req)
    /\ \A key \in FileRecordKeys : HasKey(json_loads(req.resp.text), key)

\* the UploadedFile made of the record in the registration's response
RecordOf(req) ==
    LET file_data == json_loads(req.resp.text)
    IN  [id |-> DictGet(file_data, "id", NONE),
         name |-> DictGet(file_data, "name", NONE),
         object_name |-> DictGet(file_data, "object_name", NONE),
         file_type |-> DictGet(file_data, "type", NONE),
         meta |-> DictGet(file_data, "meta", EMPTY_MAP)]

ParseRequests(r) == {i \in 1..Len(r) : r[i].kind = "parse"}

C12_MissingFileTouchesNothing ==
    [][\A t \in Tasks :
          (/\ tasks'[t].op = "upload_file"
           /\ ~tasks'[t].file.exists) =>
              /\ tasks'[t].pc = "done"
              /\ tasks'[t].result = "FileNotFoundError"
              /\ tasks'[t].reqs = <<>>
              /\ tasks'[t] # tasks[t] =>
                     /\ session' = session
                     /\ is_initialized' = is_initialized
                     /\ handles' = handles
                     /\ sent' = sent]_vars

\* upload_file on a missing file raised the not-found error on an engine
\* that has no session and has sent nothing
C12_Witness ==
    \E t \in Tasks :
        /\ tasks[t].op = "upload_file"
        /\ ~tasks[t].file.exists
        /\ tasks[t].result = "FileNotFoundError"
        /\ session = 0
        /\ handles = <<>>
        /\ sent = {}

\* ---------------------------------------------------------------------- C13
\* the kinds of request each operation may send
KindsOf(op) ==
    CASE op = "create_chat" -> {"chat"}
      [] op = "send_message_stream" -> {"stream"}
      [] op = "upload_file" -> {"presign", "put", "register", "parse"}
      [] OTHER -> {}

\* C13: within one call, create_chat sends at most one request, one
\* iteration of send_message_stream at most one, and upload_file at most one
\* for each of presign, PUT, register and parse trigger; no request is sent
\* while an earlier one of the call is unanswered, and a request that was
\* answered with anything but a 2xx response is the last one of the call.
C13_NoRetry ==
    \A t \in Tasks :
        LET r == tasks[t].reqs
        IN  /\ \A i \in 1..Len(r) : r[i].kind \in KindsOf(tasks[t].op)
            /\ \A i, j \in 1..Len(r) : r[i].kind = r[j].kind => i = j
            /\ \A i \in 1..(Len(r) - 1) : Succeeded(r[i])
            /\ (r # <<>> /\ Last(r).answered /\ ~Succeeded(Last(r))) =>
                   tasks[t].pc = "done" /\ tasks[t].result # "returned"

\* a create_chat call that was answered 500 and ended after its one request
C13_Witness ==
    \E t \in Tasks :
        /\ tasks[t].op = "create_chat"
        /\ tasks[t].pc = "done"
        /\ Len(tasks[t].reqs) = 1
        /\ tasks[t].reqs[1].resp = Response(500, <<Ch("oops")>>)
        /\ tasks[t].result = "APIError"

\* ---------------------------------------------------------------------- C14
\* The extension of a base name: what follows its last dot; a name without a
\* dot has none.
Dots(name) == {i \in 1..Len(name) : name[i] = "."}

HasExtension(name) == Dots(name) # {}

Extension(name) ==
    LET last_dot == CHOOSE i \in Dots(name) : \A j \in Dots(name) : j <= i
    IN  SubSeq(name, last_dot + 1, Len(name))

TypeByExtension(name) ==
    IF HasExtension(name) /\ LowerSeq(Extension(name)) \in IMAGE_EXTS
    THEN "image" ELSE "file"

\* C14: for every file name, upload_file's type is "image" exactly when the
\* name's extension, lower-cased, is one of png, jpg, jpeg, webp, gif, and
\* "file" otherwise; the presign request's action and the registration
\* request's type are that type.
C14_TypeFromExtension ==
    \A t \in Tasks :
        (tasks[t].op = "upload_file" /\ tasks[t].file.exists) =>
            /\ tasks[t].file_type = TypeByExtension(tasks[t].file.name)
            /\ \A i \in 1..Len(tasks[t].reqs) :
                  LET req == tasks[t].reqs[i]
                  IN  /\ req.kind = "presign" =>
                             req.json.action = TypeByExtension(tasks[t].file.name)
                      /\ req.kind = "register" =>
                             req.json.type = TypeByExtension(tasks[t].file.name)

\* ---------------------------------------------------------------------- C15
\* the request got a 2xx response whose body is a JSON object with an id
CarriesId(req) ==
    /\ Succeeded(req)
    /\ json_loads(req.resp.text).ty = "dict"
    /\ \E p \in json_loads(req.resp.text).kv : p[1] = "id"

IdOf(req) == (CHOOSE p \in json_loads(req.resp.text).kv : p[1] = "id")[2]

\* C15: a create_chat call sends one request, a POST to <base>/chat, and
\* nothing else; when the response is a 2xx one whose JSON object has an id,
\* the call returns a KimiChat whose chat_id is that id.
C15_ChatIdIsResponseId ==
    \A t \in Tasks :
        tasks[t].op = "create_chat" =>
            LET r == tasks[t].reqs
            IN  /\ Len(r) <= 1
                /\ tasks[t].result = "returned" => Len(r) = 1
                /\ \A i \in 1..Len(r) :
                      /\ r[i].method = "POST"
                      /\ r[i].url = <<"https://www.kimi.com/api", "/chat">>
                      /\ CarriesId(r[i]) =>
                             /\ tasks[t].pc = "done"
                             /\ tasks[t].result = "returned"
                             /\ tasks[t].ret_chat \in 1..Len(chats)
                             /\ chats[tasks[t].ret_chat].chat_id = IdOf(r[i])

\* create_chat answered {"id":"abc123"} returned the chat abc123
C15_Witness ==
    \E t \in Tasks :
        /\ tasks[t].op = "create_chat"
        /\ tasks[t].result = "returned"
        /\ tasks[t].reqs[1].resp = Response(200, Obj1(Pair("id", "abc123")))
        /\ chats[tasks[t].ret_chat].chat_id = "abc123"

\* ---------------------------------------------------------------------- C16
\* C16: of all the session handles the engine has created, every one except
\* the one self.session refers to has been closed, so at most one is live.
C16_AtMostOneLiveHandle ==
    \A h \in 1..Len(handles) : h # session => handles[h].closed

\* ---------------------------------------------------------------------- C17
\* the coroutine t runs a create_chat or upload_file call that began before
\* any close() had completed and is suspended at a network call now that one
\* has: close() ran while the call was suspended
ClosedWhileSuspended(t) ==
    /\ tasks[t].op \in {"create_chat", "upload_file"}
    /\ Busy(t)
    /\ ~tasks[t].after_close
    /\ closed_once

\* C17: once close() has completed while a create_chat or upload_file call
\* was suspended at a network call, no step of that call sends a request and
\* none returns a result.
C17_CloseInvalidatesOutstanding ==
    [][\A t \in Tasks :
          ClosedWhileSuspended(t) =>
              /\ tasks'[t].reqs = tasks[t].reqs
                     \/ tasks'[t].reqs = Answered(tasks[t], Last(tasks'[t].reqs).resp).reqs
              /\ tasks'[t].result # "returned"]_vars

\* ---------------------------------------------------------------------- C18
\* the generator of coroutine t is in its loop over the response's lines
InLoop(t) == tasks[t].op = "send_message_stream" /\ tasks[t].pc = "lines"

\* one step of the loop: the body is not touched, the position moves forward
\* by at most one line, and the generator returns only at the end of the body
ForwardPass(t) ==
    InLoop(t) =>
        /\ tasks'[t].body = tasks[t].body
        /\ tasks'[t].pos \in {tasks[t].pos, tasks[t].pos + 1}
        /\ tasks'[t].result = "returned" => tasks'[t].pos = Len(tasks[t].body)

\* with every line consumed, the only step is the normal end
EndsNormally(t) ==
    (InLoop(t) /\ tasks[t].pos = Len(tasks[t].body) /\ tasks'[t] # tasks[t]) =>
        /\ tasks'[t].pc = "done"
        /\ tasks'[t].result = "returned"
        /\ tasks'[t].yielded = tasks[t].yielded

\* the step that yields a StatusUpdate stays in the loop
StatusGoesOn(t) ==
    (InLoop(t) /\ tasks'[t].yielded = Append(tasks[t].yielded, StatusUpdate)) =>
        tasks'[t].pc = "lines"

\* C18: over a finite response body the iteration of send_message_stream
\* terminates; it passes over the lines once, forward, one line a step; when
\* the lines are exhausted the generator ends normally, without raising; and
\* yielding a StatusUpdate does not end it.
C18_FiniteStreamTerminates ==
    /\ [][\A t \in Tasks : ForwardPass(t) /\ EndsNormally(t) /\ StatusGoesOn(t)]_vars
    /\ \A t \in Tasks : InLoop(t) ~> (tasks[t].pc = "done")

\* a stream that ended normally after a StatusUpdate and a later chunk
C18_Witness ==
    \E t \in Tasks :
        /\ tasks[t].op = "send_message_stream"
        /\ tasks[t].result = "returned"
        /\ tasks[t].body = <<L_STATUS, L_CMPL_A>>
        /\ tasks[t].pos = 2
        /\ tasks[t].yielded = <<StatusUpdate, CompletionChunk("A")>>

\* ---------------------------------------------------------------------- C19
\* the parse trigger of the upload of coroutine t got a response whose status
\* is not 2xx
ParseRefused(t) ==
    /\ tasks[t].op = "upload_file"
    /\ Len(tasks[t].reqs) = 4
    /\ tasks[t].reqs[4].kind = "parse"
    /\ tasks[t].reqs[4].answered
    /\ tasks[t].reqs[4].resp.kind = "response"
    /\ tasks[t].reqs[4].resp.status \notin 200..299

\* C19: when the parse trigger of a document upload gets a non-2xx response,
\* upload_file raises FileUploadError (from the HTTP library's error) and
\* returns no UploadedFile, although its registration request, the third of
\* the call, had got a 2xx response.
C19_ParseFailureAfterRegistration ==
    \A t \in Tasks :
        ParseRefused(t) =>
            /\ tasks[t].pc = "done"
            /\ tasks[t].result = "FileUploadError"
            /\ tasks[t].cause = "RequestsError"
            /\ tasks[t].ret_file = NoUploaded
            /\ tasks[t].file_type = "file"
            /\ tasks[t].reqs[3].kind = "register"
            /\ tasks[t].reqs[3].resp.kind = "response"
            /\ tasks[t].reqs[3].resp.status \in 200..299

\* FileUploadError out of an upload whose registration returned the whole
\* file record and whose parse trigger was answered 500
C19_Witness ==
    \E t \in Tasks :
        /\ ParseRefused(t)
        /\ tasks[t].reqs[4].resp = Response(500, <<Ch("oops")>>)
        /\ Registered(tasks[t].reqs[3])
        /\ tasks[t].result = "FileUploadError"

\* ---------------------------------------------------------------------- C20
\* C20: a chat that exists is never changed: it keeps its chat_id and its
\* session handle through every step, close() and initialization included.
\* The chat a create_chat call returns is added with the engine's
\* self.session of that moment, a handle that exists by then.  Every request
\* of a send_message_stream on a chat went through that chat's handle; so no
\* chat uses a handle made by an initialization later than its creation.
C20_ChatKeepsItsHandle ==
    [][/\ Len(chats') >= Len(chats)
       /\ \A c \in 1..Len(chats) : chats'[c] = chats[c]
       /\ \A c \in (Len(chats) + 1)..Len(chats') :
             /\ chats'[c].session = session
             /\ chats'[c].session <= Len(handles)
       /\ \A t \in Tasks :
             tasks'[t].op = "send_message_stream" =>
                 \A i \in 1..Len(tasks'[t].reqs) :
                     tasks'[t].reqs[i].h = chats'[tasks'[t].chat].session]_vars

\* the engine was closed and initialized again (its session is handle 2),
\* and a stream on the chat made before the close went to the chat's own
\* handle 1, which is closed: it sent nothing and raised APIError
C20_Witness ==
    \E t \in Tasks :
        /\ session = 2
        /\ is_initialized
        /\ tasks[t].op = "send_message_stream"
        /\ tasks[t].pc = "done"
        /\ chats[tasks[t].chat].session = 1
        /\ handles[1].closed
        /\ tasks[t].reqs = <<>>
        /\ tasks[t].result = "APIError"

\* ---------------------------------------------------------------------- C21
\* the generator of coroutine t has been made and never advanced
NotIterated(t) == tasks[t].op = "send_message_stream" /\ tasks[t].pc = "gen"

\* C21: the step that calls send_message_stream sends no request, changes
\* nothing of the engine and raises nothing: it leaves a generator that has
\* not run.  A generator that was never advanced has sent nothing and
\* surfaced nothing.  The stream sends at most one request, a POST, and only
\* in a step that advances the generator for the first time; and an error
\* (APIError or KimiException) comes out only of a step that advances it.
C21_StreamIsLazy ==
    [][\A t \in Tasks :
          /\ (tasks'[t].op = "send_message_stream" /\ ~Busy(t) /\ tasks'[t] # tasks[t]) =>
                 /\ tasks'[t].pc = "gen"
                 /\ sent' = sent
                 /\ <<session, is_initialized, handles>>' = <<session, is_initialized, handles>>
          /\ (tasks'[t].op = "send_message_stream" /\ tasks'[t].pc = "gen") =>
                 /\ tasks'[t].reqs = <<>>
                 /\ tasks'[t].result = "none"
          /\ tasks'[t].op = "send_message_stream" =>
                 /\ Len(tasks'[t].reqs) <= 1
                 /\ \A i \in 1..Len(tasks'[t].reqs) :
                       /\ tasks'[t].reqs[i].kind = "stream"
                       /\ tasks'[t].reqs[i].method = "POST"
                 /\ (/\ tasks'[t].reqs # <<>>
                     /\ tasks'[t].reqs # tasks[t].reqs
                     /\ ~tasks'[t].reqs[1].answered) =>
                       NotIterated(t)
                 /\ (tasks'[t].result \notin {"none", "returned"} /\ tasks'[t] # tasks[t]) =>
                       /\ tasks[t].op = "send_message_stream"
                       /\ tasks[t].pc \in {"gen", "stream_await", "lines"}
                       /\ tasks'[t].result \in {"APIError", "KimiException"}]_vars

\* send_message_stream was called on a chat whose session handle is closed:
\* nothing was sent and nothing raised; the failure waits for the iteration
C21_Witness ==
    \E t \in Tasks :
        /\ NotIterated(t)
        /\ chats[tasks[t].chat].session # 0
        /\ handles[chats[tasks[t].chat].session].closed
        /\ tasks[t].reqs = <<>>
        /\ tasks[t].result = "none"

====
